---- MODULE Spec2Model ----
\* Model of opensanctions.core.context.Context: the per-dataset ingestion
\* context (statement buffer, threshold flush, crawl/export lifecycle).
\*
\* The relational store (opensanctions.model: db.session, Statement, Issue)
\* and the logging pipeline lie outside core/context.py; they are
\* modelled from the specification as a transactional store: a session view
\* (db_statements, db_issues) that commit() copies to the committed tables
\* and that rollback() resets to them. The Resource table, the download
\* function (opensanctions.core.http.fetch_download) and the mapping tables
\* (dataset.lookups) lie outside it as well and are modelled the same way.
\*
\* Spec is the crawl/export lifecycle with the buffer and the store.
\* AdapterSpec is fetch_resource, lookup_value and lookup, which a routine
\* calls and which share no state with the lifecycle.
EXTENDS Integers, Sequences, FiniteSets, TLC

\* ------------------------------------------------------------------ bounds
\* Number of crawl()/export() invocations on the Context.
MaxRuns == 2
\* Number of emit() calls made on the Context.
MaxEmits == 2
\* The flush threshold of emit (context.py:96: 50000), scaled down so that
\* the model exceeds it.
FlushThreshold == 1

\* Number of fetch_resource() calls made on one run directory.
MaxFetchCalls == 3

\* ---------------------------------------------------------------- constants
None == "None"
DatasetName == "us_bis_denied"

\* Property/value pairs of the entities, in the order from_entity walks them.
Name == << "name", "a" >>
Country == << "country", "b" >>

\* Entities handed to emit: an identifier (or None), properties, and the
\* target flag given by make(schema, target=False).
Entities ==
  { [id |-> None, props |-> << Name >>,          target |-> FALSE],
    [id |-> "e1", props |-> << >>,               target |-> FALSE],
    [id |-> "e1", props |-> << Name >>,          target |-> FALSE],
    [id |-> "e1", props |-> << Name, Country >>, target |-> FALSE],
    [id |-> "e2", props |-> << Name >>,          target |-> FALSE] }

\* The optional target override of emit (<<>> is target=None, <<b>> is
\* target=b), and its unique flag.
TargetArgs == { <<>>, <<TRUE>>, <<FALSE>> }
UniqueArgs == {FALSE}

\* Exceptions the collection routine raises by itself: a failed lookup()
\* (context.py:69), any other failure such as a fetch error, or an exit
\* request (sys.exit() in the routine).
RoutineErrors == {"LookupException", "Exception", "SystemExit"}

\* The exception classes that derive from BaseException but not from
\* Exception: `except Exception` does not match them.
NotException == {"KeyboardInterrupt", "SystemExit", "GeneratorExit"}

VARIABLES
  pc,                   \* position of the thread of control
  exc,                  \* exception in flight (None when there is none)
  statements,           \* Context._statements: key -> statement
  db_statements,        \* session view of the statement table
  db_issues,            \* session view of the issue table
  committed_statements, \* committed statement table
  committed_issues,     \* committed issue table
  logctx,               \* structlog contextvars: bound dataset or None
  run,                  \* number of crawl()/export() invocations begun
  emits,                \* emit() calls made so far
  batch,                \* statements decomposed by the emit in progress
  \* history variables
  trace,                \* controller steps of the current/last invocation
  result,               \* how the last invocation ended
  outcome,              \* run number -> how that run ended
  pre_statements,       \* committed statement table when the run began
  pre_issues,           \* committed issue table when the run began
  run_keys,             \* keys emitted during the current run
  emitted,              \* key -> last statement emitted since the buffer was cleared
  tflushes,             \* threshold flushes made by emit in the current run
  handed,               \* key -> times handed to upsert_many in the current run
  \* resources
  db_resources,         \* session view of the resource table
  committed_resources,  \* committed resource table
  export_call,          \* arguments of the last export_resource call (history)
  files,                \* run directory: path -> file at that path
  downloads,            \* path -> how each fetch_download into it ended (history)
  fetch_calls,          \* fetch_resource calls made so far
  fetch_result,         \* outcome of the last fetch_resource call
  \* lookups
  lookup_call,          \* the last lookup_value/lookup call
  lookup_result         \* its outcome

vars == << pc, exc, statements, db_statements, db_issues, committed_statements,
           committed_issues, logctx, run, emits, batch, trace, result, outcome,
           pre_statements, pre_issues, run_keys, emitted, tflushes, handed,
           db_resources, committed_resources, export_call, files, downloads,
           fetch_calls, fetch_result, lookup_call, lookup_result >>

\* The state of the Resource Manager's fetch and of the Value Lookup Adapter.
adapter_vars == << files, downloads, fetch_calls, fetch_result, lookup_call,
                   lookup_result >>

\* The state of the crawl/export lifecycle, the buffer and the store.
context_vars == << pc, exc, statements, db_statements, db_issues,
                   committed_statements, committed_issues, logctx, run, emits,
                   batch, trace, result, outcome, pre_statements, pre_issues,
                   run_keys, emitted, tflushes, handed, db_resources,
                   committed_resources, export_call >>

\* ------------------------------------------------------------------ helpers
EmptyDict == [k \in {} |-> None]

\* Mutant of DictSet: setdefault, the first statement of a key is kept.
DictSet_KeepFirst(d, key, value) ==
  IF key \in DOMAIN d THEN d
  ELSE [k \in (DOMAIN d) \cup {key} |-> IF k = key THEN value ELSE d[k]]

\* dict[key] = value
DictSet(d, key, value) ==
  [k \in (DOMAIN d) \cup {key} |-> IF k = key THEN value ELSE d[k]]

\* list(dict.values()), as a set: the keys are distinct and upsert_many does
\* not depend on the order.
Values(d) == { d[k] : k \in DOMAIN d }

\* Mutant of StatementKey: the target flag is part of the key.
StatementKey_WithTarget(stmt) ==
  << stmt.entity_id, stmt.prop, stmt.value, stmt.target >>

\* key = (stmt["entity_id"], stmt["prop"], stmt["value"])
StatementKey(stmt) == << stmt.entity_id, stmt.prop, stmt.value >>

\* Statement.from_entity: one statement per property value of the entity.
\* The run field is the provenance of the statement (the run that emitted it).
FromEntity(entity, unique, r) ==
  [ i \in 1..Len(entity.props) |->
      [ dataset   |-> DatasetName,
        entity_id |-> entity.id,
        prop      |-> entity.props[i][1],
        value     |-> entity.props[i][2],
        unique    |-> unique,
        target    |-> entity.target,
        run       |-> r ] ]

\* for stmt in statements: self._statements[key] = stmt
RECURSIVE Merge(_, _)
Merge(d, stmts) ==
  IF stmts = <<>> THEN d
  ELSE Merge(DictSet(d, StatementKey(Head(stmts)), Head(stmts)), Tail(stmts))

\* The store's identity of a statement.
StoreKey(stmt) == << stmt.dataset, stmt.entity_id, stmt.prop, stmt.value >>

\* Statement.upsert_many: insert, or update on a key conflict.
UpsertMany(table, stmts) ==
  { s \in table : \A t \in stmts : StoreKey(t) # StoreKey(s) } \cup stmts

\* Statement.clear(dataset) / Issue.clear(dataset)
ClearDataset(table, dataset) == { x \in table : x.dataset # dataset }

\* An Issue saved by the logging pipeline for an error logged while the
\* dataset is bound.
Issue(r, message) == [dataset |-> DatasetName, run |-> r, message |-> message]

LogIssue(table, r, message) ==
  IF logctx = None THEN table ELSE table \cup {Issue(r, message)}

\* The (entity_id, prop, value) triple of a statement.
Triple(stmt) == << stmt.entity_id, stmt.prop, stmt.value >>

\* The hand-over counts after the batch held by dict d went to upsert_many.
HandOver(h, d) ==
  [ k \in (DOMAIN h) \cup { Triple(d[x]) : x \in DOMAIN d } |->
      (IF k \in DOMAIN h THEN h[k] ELSE 0)
        + Cardinality({ x \in DOMAIN d : Triple(d[x]) = k }) ]

\* What a call hands back: a value, or an exception.
Returned(value) == [ exc |-> None, value |-> value ]
Raised(kind) == [ exc |-> kind, value |-> None ]

\* No call made yet.
NoCall == [op |-> "none"]

SeqToSet(s) == { s[i] : i \in 1..Len(s) }

Count(s, x) == Cardinality({ i \in 1..Len(s) : s[i] = x })

\* Position of the first x in s (0 when absent).
IndexOf(s, x) ==
  IF x \in SeqToSet(s) THEN CHOOSE i \in 1..Len(s) : s[i] = x /\ \A j \in 1..(i-1) : s[j] # x
  ELSE 0

\* -------------------------------------------------------------------- Init
Init ==
  /\ pc = "idle"
  /\ exc = None
  /\ statements = EmptyDict
  /\ db_statements = {}
  /\ committed_statements = {}
  /\ db_issues = {Issue(0, "warning")}
  /\ committed_issues = {Issue(0, "warning")}
  /\ logctx = None
  /\ run = 0
  /\ emits = 0
  /\ batch = <<>>
  /\ trace = <<>>
  /\ result = "none"
  /\ outcome = <<>>
  /\ pre_statements = {}
  /\ pre_issues = {}
  /\ run_keys = {}
  /\ emitted = EmptyDict
  /\ tflushes = 0
  /\ handed = EmptyDict
  /\ db_resources = {}
  /\ committed_resources = {}
  /\ export_call = NoCall
  /\ files = EmptyDict
  /\ downloads = EmptyDict
  /\ fetch_calls = 0
  /\ fetch_result = NoCall
  /\ lookup_call = NoCall
  /\ lookup_result = NoCall

\* ------------------------------------------------------------------- store
\* db.session.commit(): the session view becomes the committed tables.
Commit(session_statements, session_issues) ==
  /\ committed_statements' = session_statements
  /\ committed_issues' = session_issues
  /\ committed_resources' = db_resources

\* ----------------------------------------------------------------- Context
\* Context.bind
Bind == logctx' = DatasetName

\* Mutant of Flush: the buffer is reset before the upsert reads it.
Flush_ClearFirst ==
  /\ db_statements' = UpsertMany(db_statements, Values(EmptyDict))
  /\ statements' = EmptyDict
  /\ emitted' = EmptyDict

\* Context.flush: one batched upsert of the buffer, then the buffer is reset.
Flush ==
  /\ db_statements' = UpsertMany(db_statements, Values(statements))
  /\ statements' = EmptyDict
  /\ emitted' = EmptyDict

\* Positions inside the try block of crawl() after bind and Issue.clear.
RunningPcs == {"routine", "emit_check", "final_flush", "report"}

\* Context.crawl, up to the call of the collection routine:
\* bind, Issue.clear(dataset), log "Begin crawl".
CrawlBegin ==
  /\ pc = "idle"
  /\ run < MaxRuns
  /\ Bind
  /\ db_issues' = ClearDataset(db_issues, DatasetName)
  /\ pc' = "routine"
  /\ run' = run + 1
  /\ trace' = << "bind", "issue_clear" >>
  /\ result' = "none"
  /\ outcome' = Append(outcome, "running")
  /\ pre_statements' = committed_statements
  /\ pre_issues' = committed_issues
  /\ run_keys' = {}
  /\ UNCHANGED << exc, statements, db_statements, committed_statements,
                  committed_issues, emits, batch, emitted >>
  /\ tflushes' = 0
  /\ handed' = EmptyDict
  /\ export_call' = NoCall
  /\ UNCHANGED << db_resources, committed_resources >>
  /\ UNCHANGED adapter_vars

\* Mutant of Emit: an entity without an id is decomposed and merged.
Emit_NoIdCheck(entity, target, unique) ==
  /\ pc = "routine"
  /\ emits < MaxEmits
  /\ emits' = emits + 1
  /\ LET overridden == IF target # <<>> THEN [entity EXCEPT !.target = target[1]]
                       ELSE entity
         stmts == FromEntity(overridden, unique, run)
     IN IF Len(stmts) = 0
        THEN /\ exc' = "ValueError"
             /\ pc' = "raised"
             /\ UNCHANGED << statements, batch, run_keys, emitted >>
        ELSE /\ statements' = Merge(statements, stmts)
             /\ batch' = stmts
             /\ pc' = "emit_check"
             /\ run_keys' = run_keys \cup { StatementKey(stmts[i]) : i \in 1..Len(stmts) }
             /\ emitted' = [ k \in (DOMAIN emitted) \cup { StatementKey(stmts[i]) : i \in 1..Len(stmts) } |->
                              IF \E i \in 1..Len(stmts) : StatementKey(stmts[i]) = k
                              THEN stmts[CHOOSE i \in 1..Len(stmts) :
                                           /\ StatementKey(stmts[i]) = k
                                           /\ \A j \in (i+1)..Len(stmts) : StatementKey(stmts[j]) # k]
                              ELSE emitted[k] ]
             /\ UNCHANGED exc
  /\ UNCHANGED << db_statements, db_issues, committed_statements, committed_issues,
                  logctx, run, trace, result, outcome, pre_statements, pre_issues >>
  /\ UNCHANGED << tflushes, handed, db_resources, committed_resources, export_call >>
  /\ UNCHANGED adapter_vars

\* Context.emit up to the threshold check: the two caller errors, the target
\* override, the decomposition and the merge into the buffer.
Emit(entity, target, unique) ==
  /\ pc = "routine"
  /\ emits < MaxEmits
  /\ emits' = emits + 1
  /\ LET overridden == IF target # <<>> THEN [entity EXCEPT !.target = target[1]]
                       ELSE entity
         stmts == FromEntity(overridden, unique, run)
     IN IF entity.id = None \/ Len(stmts) = 0
        THEN /\ exc' = "ValueError"
             /\ pc' = "raised"
             /\ UNCHANGED << statements, batch, run_keys, emitted >>
        ELSE /\ statements' = Merge(statements, stmts)
             /\ batch' = stmts
             /\ pc' = "emit_check"
             /\ run_keys' = run_keys \cup { StatementKey(stmts[i]) : i \in 1..Len(stmts) }
             /\ emitted' = [ k \in (DOMAIN emitted) \cup { StatementKey(stmts[i]) : i \in 1..Len(stmts) } |->
                              IF \E i \in 1..Len(stmts) : StatementKey(stmts[i]) = k
                              THEN stmts[CHOOSE i \in 1..Len(stmts) :
                                           /\ StatementKey(stmts[i]) = k
                                           /\ \A j \in (i+1)..Len(stmts) : StatementKey(stmts[j]) # k]
                              ELSE emitted[k] ]
             /\ UNCHANGED exc
  /\ UNCHANGED << db_statements, db_issues, committed_statements, committed_issues,
                  logctx, run, trace, result, outcome, pre_statements, pre_issues >>
  /\ UNCHANGED << tflushes, handed, db_resources, committed_resources, export_call >>
  /\ UNCHANGED adapter_vars

\* Mutant of EmitCheck: the flush already happens at the threshold.
EmitCheck_AtThreshold ==
  /\ pc = "emit_check"
  /\ IF Cardinality(DOMAIN statements) >= FlushThreshold
     THEN /\ Flush
          /\ tflushes' = tflushes + 1
          /\ handed' = HandOver(handed, statements)
     ELSE UNCHANGED << db_statements, statements, emitted, tflushes, handed >>
  /\ pc' = "routine"
  /\ batch' = << >>
  /\ UNCHANGED << exc, db_issues, committed_statements, committed_issues, logctx,
                  run, emits, trace, result, outcome, pre_statements, pre_issues, run_keys >>
  /\ UNCHANGED << db_resources, committed_resources, export_call >>
  /\ UNCHANGED adapter_vars

\* Context.emit from the threshold check to its return.
EmitCheck ==
  /\ pc = "emit_check"
  /\ IF Cardinality(DOMAIN statements) > FlushThreshold
     THEN /\ Flush
          /\ tflushes' = tflushes + 1
          /\ handed' = HandOver(handed, statements)
     ELSE UNCHANGED << db_statements, statements, emitted, tflushes, handed >>
  /\ pc' = "routine"
  /\ batch' = << >>
  /\ UNCHANGED << exc, db_issues, committed_statements, committed_issues, logctx,
                  run, emits, trace, result, outcome, pre_statements, pre_issues, run_keys >>
  /\ UNCHANGED << db_resources, committed_resources, export_call >>
  /\ UNCHANGED adapter_vars

\* The collection routine raises (a failed lookup, or any other error).
RoutineRaise(kind) ==
  /\ pc = "routine"
  /\ exc' = kind
  /\ pc' = "raised"
  /\ UNCHANGED << statements, db_statements, db_issues, committed_statements,
                  committed_issues, logctx, run, emits, batch, trace, result,
                  outcome, pre_statements, pre_issues, run_keys,
                  emitted >>
  /\ UNCHANGED << tflushes, handed, db_resources, committed_resources, export_call >>
  /\ UNCHANGED adapter_vars

\* The collection routine returns: crawl() goes on to self.flush().
RoutineReturn ==
  /\ pc = "routine"
  /\ pc' = "final_flush"
  /\ UNCHANGED << exc, statements, db_statements, db_issues, committed_statements,
                  committed_issues, logctx, run, emits, batch, trace, result,
                  outcome, pre_statements, pre_issues, run_keys,
                  emitted >>
  /\ UNCHANGED << tflushes, handed, db_resources, committed_resources, export_call >>
  /\ UNCHANGED adapter_vars

\* crawl(): self.flush() after the routine returned.
FinalFlush ==
  /\ pc = "final_flush"
  /\ Flush
  /\ pc' = "report"
  /\ trace' = Append(trace, "flush")
  /\ UNCHANGED << exc, db_issues, committed_statements, committed_issues, logctx,
                  run, emits, batch, result, outcome, pre_statements, pre_issues, run_keys >>
  /\ handed' = HandOver(handed, statements)
  /\ UNCHANGED << tflushes, db_resources, committed_resources, export_call >>
  /\ UNCHANGED adapter_vars

\* crawl(): log "Crawl completed" with the statement counts.
Report ==
  /\ pc = "report"
  /\ pc' = "closing"
  /\ trace' = Append(trace, "report")
  /\ outcome' = [outcome EXCEPT ![run] = "completed"]
  /\ UNCHANGED << exc, statements, db_statements, db_issues, committed_statements,
                  committed_issues, logctx, run, emits, batch, result,
                  pre_statements, pre_issues, run_keys, emitted >>
  /\ UNCHANGED << tflushes, handed, db_resources, committed_resources, export_call >>
  /\ UNCHANGED adapter_vars

\* A KeyboardInterrupt delivered while crawl() is inside its try block.
Interrupt ==
  /\ pc \in RunningPcs
  /\ exc' = "KeyboardInterrupt"
  /\ pc' = "raised"
  /\ outcome' = [outcome EXCEPT ![run] = "interrupted"]
  /\ batch' = << >>
  /\ UNCHANGED << statements, db_statements, db_issues, committed_statements,
                  committed_issues, logctx, run, emits, trace, result,
                  pre_statements, pre_issues, run_keys, emitted >>
  /\ UNCHANGED << tflushes, handed, db_resources, committed_resources, export_call >>
  /\ UNCHANGED adapter_vars

\* Mutant of HandleInterrupt: the interruption is rolled back and logged but
\* not re-raised.
HandleInterrupt_Swallow ==
  /\ pc = "raised"
  /\ exc = "KeyboardInterrupt"
  /\ db_statements' = committed_statements
  /\ db_issues' = committed_issues
  /\ trace' = Append(trace, "rollback")
  /\ exc' = None
  /\ pc' = "closing"
  /\ UNCHANGED << statements, committed_statements, committed_issues, logctx,
                  run, emits, batch, result, outcome, pre_statements, pre_issues,
                  run_keys, emitted >>
  /\ db_resources' = committed_resources
  /\ UNCHANGED << tflushes, handed, committed_resources, export_call >>
  /\ UNCHANGED adapter_vars

\* crawl(): except KeyboardInterrupt: rollback, re-raise.
HandleInterrupt ==
  /\ pc = "raised"
  /\ exc = "KeyboardInterrupt"
  /\ db_statements' = committed_statements
  /\ db_issues' = committed_issues
  /\ trace' = Append(trace, "rollback")
  /\ pc' = "closing"
  /\ UNCHANGED << exc, statements, committed_statements, committed_issues, logctx,
                  run, emits, batch, result, outcome, pre_statements, pre_issues, run_keys, emitted >>
  /\ db_resources' = committed_resources
  /\ UNCHANGED << tflushes, handed, committed_resources, export_call >>
  /\ UNCHANGED adapter_vars

\* crawl(): except LookupException: rollback, log the error.
HandleLookup ==
  /\ pc = "raised"
  /\ exc = "LookupException"
  /\ db_statements' = committed_statements
  /\ db_issues' = LogIssue(committed_issues, run, "lookup")
  /\ trace' = trace \o << "rollback", "log_error" >>
  /\ outcome' = [outcome EXCEPT ![run] = "failed"]
  /\ exc' = None
  /\ pc' = "closing"
  /\ UNCHANGED << statements, committed_statements, committed_issues, logctx,
                  run, emits, batch, result, pre_statements, pre_issues, run_keys, emitted >>
  /\ db_resources' = committed_resources
  /\ UNCHANGED << tflushes, handed, committed_resources, export_call >>
  /\ UNCHANGED adapter_vars

\* crawl(): except Exception: rollback, log the exception.
HandleException ==
  /\ pc = "raised"
  /\ exc \notin {None, "LookupException"} \cup NotException
  /\ db_statements' = committed_statements
  /\ db_issues' = LogIssue(committed_issues, run, "Crawl failed")
  /\ trace' = trace \o << "rollback", "log_exception" >>
  /\ outcome' = [outcome EXCEPT ![run] = "failed"]
  /\ exc' = None
  /\ pc' = "closing"
  /\ UNCHANGED << statements, committed_statements, committed_issues, logctx,
                  run, emits, batch, result, pre_statements, pre_issues, run_keys, emitted >>
  /\ db_resources' = committed_resources
  /\ UNCHANGED << tflushes, handed, committed_resources, export_call >>
  /\ UNCHANGED adapter_vars

\* crawl(): an exception that no except clause matches goes to the finally
\* clause as it is: no rollback, no log.
Unhandled ==
  /\ pc = "raised"
  /\ exc \in NotException \ {"KeyboardInterrupt"}
  /\ outcome' = [outcome EXCEPT ![run] = "escaped"]
  /\ pc' = "closing"
  /\ UNCHANGED << exc, statements, db_statements, db_issues, committed_statements,
                  committed_issues, logctx, run, emits, batch, trace, result,
                  pre_statements, pre_issues, run_keys, emitted >>
  /\ UNCHANGED << tflushes, handed, db_resources, committed_resources, export_call >>
  /\ UNCHANGED adapter_vars

\* Mutant of Close: the logging context is left bound.
Close_KeepsContext ==
  /\ pc = "closing"
  /\ Commit(db_statements, db_issues)
  /\ trace' = Append(trace, "close")
  /\ result' = IF exc = None THEN "returned" ELSE exc
  /\ exc' = None
  /\ pc' = "idle"
  /\ UNCHANGED << statements, db_statements, db_issues, logctx, run, emits,
                  batch, outcome, pre_statements, pre_issues, run_keys, emitted >>
  /\ UNCHANGED << tflushes, handed, db_resources, export_call >>
  /\ UNCHANGED adapter_vars

\* Mutant of Close: close() is also reached a second time (a handler that
\* closes by itself before the finally clause does).
Close_Twice ==
  /\ pc = "closing"
  /\ logctx' = None
  /\ Commit(db_statements, db_issues)
  /\ trace' = trace \o << "close", "close" >>
  /\ result' = IF exc = None THEN "returned" ELSE exc
  /\ exc' = None
  /\ pc' = "idle"
  /\ UNCHANGED << statements, db_statements, db_issues, run, emits, batch,
                  outcome, pre_statements, pre_issues, run_keys, emitted >>
  /\ UNCHANGED << tflushes, handed, db_resources, export_call >>
  /\ UNCHANGED adapter_vars

\* Context.close, as the finally clause of crawl() and export(): clear the
\* logging context, commit; then the invocation returns, or the exception
\* still in flight reaches the caller.
Close ==
  /\ pc = "closing"
  /\ logctx' = None
  /\ Commit(db_statements, db_issues)
  /\ trace' = Append(trace, "close")
  /\ result' = IF exc = None THEN "returned" ELSE exc
  /\ exc' = None
  /\ pc' = "idle"
  /\ UNCHANGED << statements, db_statements, db_issues, run, emits, batch,
                  outcome, pre_statements, pre_issues, run_keys,
                  emitted >>
  /\ UNCHANGED << tflushes, handed, db_resources, export_call >>
  /\ UNCHANGED adapter_vars

\* Context.export up to the call of export_dataset: bind.
ExportBegin ==
  /\ pc = "idle"
  /\ run < MaxRuns
  /\ Bind
  /\ pc' = "exporting"
  /\ run' = run + 1
  /\ trace' = << "bind" >>
  /\ result' = "none"
  /\ outcome' = Append(outcome, "export")
  /\ pre_statements' = committed_statements
  /\ pre_issues' = committed_issues
  /\ UNCHANGED << exc, statements, db_statements, db_issues, committed_statements,
                  committed_issues, emits, batch, run_keys, emitted >>
  /\ tflushes' = 0
  /\ handed' = EmptyDict
  /\ export_call' = NoCall
  /\ UNCHANGED << db_resources, committed_resources >>
  /\ UNCHANGED adapter_vars

\* The files handed to export_resource: one beneath the run directory
\* (Context.path) and one outside it.
ExportPaths == { << DatasetName, "targets.json" >>, << "tmp", "targets.json" >> }

\* The mime_type argument of export_resource: absent, or given.
MimeArgs == { << >>, << "application/json" >> }

\* The bytes of a file, as the chunks read from it.
Content(path) == << path[2] >>

\* hashlib.sha1 over the chunks, hexdigest.
Checksum(path) == << "sha1", Content(path) >>

\* The number of bytes read.
Size(path) == Len(Content(path))

\* The type the extension of the path stands for.
ExtensionType(path) == "application/json"

\* mimetypes.guess(path): the mimetypes module has no attribute of that name.
MimetypesGuess(path) == Raised("AttributeError")

\* path.relative_to(self.path).as_posix()
RelativeTo(path, base) ==
  IF path[1] = base THEN Returned(path[2]) ELSE Raised("ValueError")

\* Resource.save: the resource of the dataset at that path is created or replaced.
ResourceSave(table, rel_path, dataset, checksum, mime_type, size, title) ==
  { r \in table : ~(r.dataset = dataset /\ r.path = rel_path) }
    \cup { [ path |-> rel_path, dataset |-> dataset, checksum |-> checksum,
             mime_type |-> mime_type, size |-> size, title |-> title ] }

\* Context.export_resource, called by the export routine; an exception leaves
\* the routine.
ExportResource(path, mime) ==
  /\ pc = "exporting"
  /\ LET guessed == IF mime = << >> THEN MimetypesGuess(path) ELSE Returned(mime[1])
         rel == RelativeTo(path, DatasetName)
         failure == IF guessed.exc # None THEN guessed.exc ELSE rel.exc
     IN /\ export_call' = [ op |-> "export_resource", path |-> path, mime |-> mime,
                            exc |-> failure ]
        /\ IF failure = None
           THEN /\ db_resources' = ResourceSave(db_resources, rel.value, DatasetName,
                                                Checksum(path), guessed.value,
                                                Size(path), None)
                /\ UNCHANGED << pc, exc >>
           ELSE /\ exc' = failure
                /\ pc' = "closing"
                /\ UNCHANGED db_resources
  /\ UNCHANGED << statements, db_statements, db_issues, committed_statements,
                  committed_issues, logctx, run, emits, batch, trace, result,
                  outcome, pre_statements, pre_issues, run_keys,
                  emitted >>
  /\ UNCHANGED << tflushes, handed, committed_resources >>
  /\ UNCHANGED adapter_vars

\* Mutant of ExportEnd: the exception reaches the caller without close.
ExportEnd_NoFinally(kind) ==
  /\ pc = "exporting"
  /\ exc' = None
  /\ result' = IF kind = None THEN "returned" ELSE kind
  /\ pc' = "idle"
  /\ UNCHANGED << statements, db_statements, db_issues, committed_statements,
                  committed_issues, logctx, run, emits, batch, trace,
                  outcome, pre_statements, pre_issues, run_keys,
                  emitted >>
  /\ UNCHANGED << tflushes, handed, db_resources, committed_resources, export_call >>
  /\ UNCHANGED adapter_vars

\* Mutant of ExportEnd: an exception rolls the session back, as in crawl().
ExportEnd_Rollback(kind) ==
  /\ pc = "exporting"
  /\ exc' = kind
  /\ pc' = "closing"
  /\ IF kind = None
     THEN UNCHANGED << db_statements, db_issues, db_resources >>
     ELSE /\ db_statements' = committed_statements
          /\ db_issues' = committed_issues
          /\ db_resources' = committed_resources
  /\ UNCHANGED << statements, committed_statements,
                  committed_issues, logctx, run, emits, batch, trace, result,
                  outcome, pre_statements, pre_issues, run_keys,
                  emitted >>
  /\ UNCHANGED << tflushes, handed, committed_resources, export_call >>
  /\ UNCHANGED adapter_vars

\* export_dataset returns, or raises kind.
ExportEnd(kind) ==
  /\ pc = "exporting"
  /\ exc' = kind
  /\ pc' = "closing"
  /\ UNCHANGED << statements, db_statements, db_issues, committed_statements,
                  committed_issues, logctx, run, emits, batch, trace, result,
                  outcome, pre_statements, pre_issues, run_keys,
                  emitted >>
  /\ UNCHANGED << tflushes, handed, db_resources, committed_resources, export_call >>
  /\ UNCHANGED adapter_vars

\* An operation called between runs ends the observation of the last
\* invocation: its history is dropped.
Forget ==
  /\ result' = "none"
  /\ trace' = << >>
  /\ run_keys' = {}
  /\ pre_statements' = {}
  /\ pre_issues' = {}
  /\ tflushes' = 0
  /\ handed' = EmptyDict
  /\ export_call' = NoCall

\* Context.clear, called between runs.
ClearCall ==
  /\ pc = "idle"
  /\ db_issues' = ClearDataset(db_issues, DatasetName)
  /\ db_statements' = ClearDataset(db_statements, DatasetName)
  /\ Commit(db_statements', db_issues')
  /\ Forget
  /\ UNCHANGED << pc, exc, statements, logctx, run, emits, batch, outcome,
                  emitted >>
  /\ UNCHANGED db_resources
  /\ UNCHANGED adapter_vars

\* Context.flush, called between runs.
FlushCall ==
  /\ pc = "idle"
  /\ Flush
  /\ Forget
  /\ UNCHANGED << pc, exc, db_issues, committed_statements, committed_issues,
                  logctx, run, emits, batch, outcome >>
  /\ UNCHANGED << db_resources, committed_resources >>
  /\ UNCHANGED adapter_vars

\* Context.close, called between runs.
CloseCall ==
  /\ pc = "idle"
  /\ logctx' = None
  /\ Commit(db_statements, db_issues)
  /\ Forget
  /\ UNCHANGED << pc, exc, statements, db_statements, db_issues, run, emits,
                  batch, outcome, emitted >>
  /\ UNCHANGED db_resources
  /\ UNCHANGED adapter_vars


\* ------------------------------------------------------- Resource Manager
\* The names a routine fetches: the one of us_bis_denied and a second one.
ResourceNames == {"dpl.tsv", "index.html"}

\* The urls passed to fetch_resource: context.dataset.data.url and another.
Urls == {"data.url", "mirror.url"}

\* How a download can end: the whole body written, an error before the file
\* is opened, an error or interruption with part of the body written.
DownloadOutcomes == {"ok", "failed", "partial"}

\* Context.get_resource_path
GetResourcePath(name) == << DatasetName, name >>

\* fetch_download(file_path, url): writes the body to file_path itself.
FetchDownload(fs, file_path, url, how, call) ==
  CASE how = "ok" ->
         [ files |-> DictSet(fs, file_path, [url |-> url, complete |-> TRUE, written |-> call]),
           exc |-> None ]
    [] how = "partial" ->
         [ files |-> DictSet(fs, file_path, [url |-> url, complete |-> FALSE, written |-> call]),
           exc |-> "FetchError" ]
    [] OTHER -> [ files |-> fs, exc |-> "FetchError" ]

\* The downloads made for a path so far, with one more.
Downloaded(ds, file_path, how) ==
  DictSet(ds, file_path,
          Append(IF file_path \in DOMAIN ds THEN ds[file_path] ELSE << >>, how))

\* Mutant of FetchResource: the download is made whether or not the file exists.
FetchResource_Always(name, url, how) ==
  /\ fetch_calls < MaxFetchCalls
  /\ fetch_calls' = fetch_calls + 1
  /\ LET file_path == GetResourcePath(name)
         d == FetchDownload(files, file_path, url, how, fetch_calls')
     IN /\ files' = d.files
        /\ downloads' = Downloaded(downloads, file_path, how)
        /\ fetch_result' = [ op |-> "fetch_resource", name |-> name, exc |-> d.exc,
                             path |-> IF d.exc = None THEN file_path ELSE None ]
  /\ UNCHANGED << lookup_call, lookup_result >>
  /\ UNCHANGED context_vars

\* Context.fetch_resource
FetchResource(name, url, how) ==
  /\ fetch_calls < MaxFetchCalls
  /\ fetch_calls' = fetch_calls + 1
  /\ LET file_path == GetResourcePath(name)
         d == FetchDownload(files, file_path, url, how, fetch_calls')
     IN IF file_path \notin DOMAIN files
        THEN /\ files' = d.files
             /\ downloads' = Downloaded(downloads, file_path, how)
             /\ fetch_result' = [ op |-> "fetch_resource", name |-> name, exc |-> d.exc,
                                  path |-> IF d.exc = None THEN file_path ELSE None ]
        ELSE /\ UNCHANGED << files, downloads >>
             /\ fetch_result' = [ op |-> "fetch_resource", name |-> name, exc |-> None,
                                  path |-> file_path ]
  /\ UNCHANGED << lookup_call, lookup_result >>
  /\ UNCHANGED context_vars

\* --------------------------------------------------- Value Lookup Adapter
\* dataset.lookups: the declared mapping tables. A table has rules from raw
\* values to mapped values; for a required table the resolution of a value
\* without a rule signals LookupException also from get_value.
Lookups ==
  [ country_codes |-> [ rules |-> [ v \in {"US"} |-> "us" ], required |-> FALSE ],
    type          |-> [ rules |-> [ v \in {"US"} |-> "Entity" ], required |-> TRUE ] ]

\* The raw values looked up: one with a rule and one without.
RawValues == {"US", "USA"}

\* The defaults passed to lookup_value.
Defaults == {None, "ZZ"}

\* Lookup.match
Match(table, value) ==
  IF value \in DOMAIN table.rules
  THEN Returned(table.rules[value])
  ELSE Raised("LookupException")

\* Lookup.get_value
GetValue(table, value, default) ==
  IF value \in DOMAIN table.rules
  THEN Returned(table.rules[value])
  ELSE IF table.required THEN Raised("LookupException") ELSE Returned(default)

\* Mutant of LookupValue: without the except clause.
LookupValue_NoExcept(lookup, value, default) ==
  GetValue(Lookups[lookup], value, default)

\* Context.lookup_value
LookupValue(lookup, value, default) ==
  LET got == GetValue(Lookups[lookup], value, default)
  IN IF got.exc = "LookupException" THEN Returned(default) ELSE got

\* Context.lookup
Lookup(lookup, value) == Match(Lookups[lookup], value)

\* A call of Context.lookup_value by the routine.
LookupValueCall(lookup, value, default) ==
  /\ lookup_call' = [ op |-> "lookup_value", lookup |-> lookup, value |-> value,
                      default |-> default ]
  /\ lookup_result' = LookupValue(lookup, value, default)
  /\ UNCHANGED << files, downloads, fetch_calls, fetch_result >>
  /\ UNCHANGED context_vars

\* A call of Context.lookup by the routine.
LookupCall(lookup, value) ==
  /\ lookup_call' = [ op |-> "lookup", lookup |-> lookup, value |-> value,
                      default |-> None ]
  /\ lookup_result' = Lookup(lookup, value)
  /\ UNCHANGED << files, downloads, fetch_calls, fetch_result >>
  /\ UNCHANGED context_vars

Next ==
  \/ CrawlBegin
  \/ \E entity \in Entities, target \in TargetArgs, unique \in UniqueArgs :
       Emit(entity, target, unique)
  \/ EmitCheck
  \/ \E kind \in RoutineErrors : RoutineRaise(kind)
  \/ RoutineReturn
  \/ FinalFlush
  \/ Report
  \/ Interrupt
  \/ HandleInterrupt
  \/ HandleLookup
  \/ HandleException
  \/ Unhandled
  \/ Close
  \/ ExportBegin
  \/ \E path \in ExportPaths, mime \in MimeArgs : ExportResource(path, mime)
  \/ \E kind \in {None, "Exception", "KeyboardInterrupt"} : ExportEnd(kind)
  \/ ClearCall
  \/ FlushCall
  \/ CloseCall

Spec == Init /\ [][Next]_vars

\* The operations a routine calls on the Resource Manager and on the Value
\* Lookup Adapter; they neither read nor write the state of the run.
AdapterNext ==
  \/ \E name \in ResourceNames, url \in Urls, how \in DownloadOutcomes :
       FetchResource(name, url, how)
  \/ \E lookup \in DOMAIN Lookups, value \in RawValues, default \in Defaults :
       LookupValueCall(lookup, value, default)
  \/ \E lookup \in DOMAIN Lookups, value \in RawValues : LookupCall(lookup, value)

AdapterSpec == Init /\ [][AdapterNext]_vars

\* ------------------------------------------------------------------ claims
Last(s) == s[Len(s)]

\* crawl() or export() has just returned or raised.
Finished == pc = "idle" /\ result # "none"

\* The last invocation was a crawl() that ended the given way.
CrawlEnded(how) == run > 0 /\ outcome[run] = how

\* The last invocation was a crawl() whose routine raised something other
\* than an interruption: handled by an except clause, or by none.
RoutineFailed == run > 0 /\ outcome[run] \in {"failed", "escaped"}

\* C1: a crawl whose collection routine raised a non-interrupt error leaves
\* the committed statement table as it was before the run, also when emit
\* flushed on the threshold before the error.
C1_RollbackOnFailure ==
  (Finished /\ RoutineFailed) => committed_statements = pre_statements

\* C2: a crawl whose routine returned flushes, then reports, then closes, and
\* on return the committed store holds this run's statement for every key
\* emitted during the run.
C2_CompletedCommitted ==
  (Finished /\ CrawlEnded("completed")) =>
     /\ result = "returned"
     /\ trace = << "bind", "issue_clear", "flush", "report", "close" >>
     /\ \A k \in run_keys :
          \E s \in committed_statements : StatementKey(s) = k /\ s.run = run

\* A completed run that emitted more keys than the threshold.
C2_Witness ==
  /\ Finished
  /\ CrawlEnded("completed")
  /\ Cardinality(run_keys) > FlushThreshold
  /\ \A k \in run_keys : \E s \in committed_statements : StatementKey(s) = k

\* The buffer holds, under each key emitted since it was last cleared, the
\* last statement emitted for that key, and nothing else.
C3_Buffer ==
  /\ DOMAIN statements = DOMAIN emitted
  /\ \A k \in DOMAIN statements :
       /\ statements[k] = emitted[k]
       /\ StatementKey(statements[k]) = k

\* A flush of a non-empty buffer leaves in the session table, for each key of
\* the buffer, exactly one statement: the last one emitted.
C3_FlushStep ==
  (statements # EmptyDict /\ statements' = EmptyDict) =>
     \A k \in DOMAIN emitted :
        { s \in db_statements' : StatementKey(s) = k } = { emitted[k] }

\* C3: dedup invariant: the buffer never holds two entries of one key, and
\* what is flushed is exactly one statement per key, the last one emitted.
C3_Dedup == [] C3_Buffer /\ [][C3_FlushStep]_vars

\* Two emits of the first run merged into the same key, nothing flushed yet.
C3_Witness ==
  /\ run = 1
  /\ emits = 2
  /\ pc = "emit_check"
  /\ db_statements = {}
  /\ Cardinality(DOMAIN statements) = 1
  /\ \A k \in DOMAIN statements : statements[k].target

\* C4: an interruption raised in the Running phase of crawl() is followed by
\* the rollback, then by close, and then reaches the caller of crawl().
C4_InterruptPropagates ==
  /\ (pc = "closing" /\ CrawlEnded("interrupted")) =>
        /\ exc = "KeyboardInterrupt"
        /\ Last(trace) = "rollback"
        /\ db_statements = committed_statements
        /\ db_issues = committed_issues
  /\ (Finished /\ CrawlEnded("interrupted")) =>
        /\ result = "KeyboardInterrupt"
        /\ Count(trace, "rollback") = 1
        /\ Count(trace, "close") = 1
        /\ IndexOf(trace, "rollback") + 1 = Len(trace)
        /\ Last(trace) = "close"
        /\ committed_statements = pre_statements

\* An interrupted run that had emitted, after crawl() raised.
C4_Witness ==
  /\ Finished
  /\ CrawlEnded("interrupted")
  /\ run_keys # {}
  /\ result = "KeyboardInterrupt"

\* C5: a LookupException or any other non-interrupt exception of the routine
\* is rolled back and crawl() returns normally.
C5_AnyExceptionHandled ==
  (Finished /\ RoutineFailed) =>
     /\ result = "returned"
     /\ "rollback" \in SeqToSet(trace)

\* C6: every invocation executes close exactly once, as its last step, on
\* every path.
C6_CloseOnce ==
  /\ (pc # "idle") => "close" \notin SeqToSet(trace)
  /\ Finished => (Count(trace, "close") = 1 /\ Last(trace) = "close")

\* A crawl() ended by an interruption, closed once.
C6_Witness ==
  /\ Finished
  /\ CrawlEnded("interrupted")
  /\ Count(trace, "close") = 1

\* C7: the logging context carries the dataset from bind until close, the
\* failure is logged under it, and it is unbound once crawl() or export()
\* has returned or raised.
C7_LogContext ==
  /\ (pc \in RunningPcs \cup {"raised", "closing", "exporting"}) => logctx = DatasetName
  /\ (pc = "closing" /\ CrawlEnded("failed")) =>
        \E i \in db_issues : i.run = run /\ i.dataset = DatasetName
  /\ Finished => logctx = None

\* An interrupted crawl() followed by an export() that raised: unbound.
C7_Witness ==
  /\ Finished
  /\ run = 2
  /\ outcome[1] = "interrupted"
  /\ outcome[2] = "export"
  /\ result = "Exception"
  /\ logctx = None

\* C8: statements that were in the buffer, unflushed, when a run was aborted
\* are never persisted by any later operation on the Context.
C8_AbortedNeverPersisted ==
  \A s \in committed_statements : outcome[s.run] \notin {"failed", "interrupted"}

\* C9: after crawl() has returned or raised, on every path, the committed
\* store holds none of the Issues that existed before the run.
C9_IssuesCleared ==
  (Finished /\ run > 0 /\ outcome[run] \in {"completed", "failed", "interrupted"}) =>
     pre_issues \cap committed_issues = {}

\* C10: with no emit in progress (nor being unwound by an exception) the
\* buffer holds at most the threshold; at the threshold check it exceeds the
\* threshold by at most the statements of the entity being emitted.
C10_BoundedBuffer ==
  /\ (pc \notin {"emit_check", "raised"}) =>
        Cardinality(DOMAIN statements) <= FlushThreshold
  /\ (pc = "emit_check") =>
        Cardinality(DOMAIN statements) <= FlushThreshold + Len(batch)

\* C11: an emit whose merge leaves more than FlushThreshold keys in the buffer
\* flushes before it returns (the buffer goes to one batched upsert and is
\* reset), an emit that leaves at most FlushThreshold keys flushes nothing;
\* hence a routine that returns after emitting more than FlushThreshold
\* distinct keys has had at least one threshold flush before the final flush.
C11_EmitReturns ==
  (pc = "emit_check" /\ pc' = "routine") =>
     IF Cardinality(DOMAIN statements) > FlushThreshold
     THEN /\ statements' = EmptyDict
          /\ db_statements' = UpsertMany(db_statements, Values(statements))
          /\ tflushes' = tflushes + 1
     ELSE UNCHANGED << statements, db_statements, tflushes >>

C11_Intermediate ==
  (pc = "final_flush" /\ Cardinality(run_keys) > FlushThreshold) => tflushes >= 1

C11_ThresholdFlush == [] C11_Intermediate /\ [][C11_EmitReturns]_vars

C11_Witness ==
  /\ pc = "final_flush"
  /\ Cardinality(run_keys) > FlushThreshold
  /\ tflushes >= 1
  /\ statements # EmptyDict

\* The downloads of a path that left a file at it.
Landed(file_path) ==
  { i \in 1..Len(downloads[file_path]) : downloads[file_path][i] # "failed" }

\* C12 as stated: for each name the fetch collaborator is invoked at most once.
C12_FetchedAtMostOnce ==
  \A file_path \in DOMAIN downloads : Len(downloads[file_path]) <= 1

\* C12: fetch_resource invokes the fetch collaborator only when no file is at
\* the path, so for each name at most one download leaves a file; a call that
\* finds the file returns its path, invokes no download and leaves the file
\* as it is.
C12_ExistingPath ==
  (fetch_calls' = fetch_calls + 1
     /\ GetResourcePath(fetch_result'.name) \in DOMAIN files) =>
       /\ files' = files
       /\ downloads' = downloads
       /\ fetch_result'.exc = None
       /\ fetch_result'.path = GetResourcePath(fetch_result'.name)

C12_OneLanding ==
  \A file_path \in DOMAIN downloads : Cardinality(Landed(file_path)) <= 1

C12_IdempotentFetch == [] C12_OneLanding /\ [][C12_ExistingPath]_vars

C12_Witness ==
  /\ fetch_calls = 3
  /\ fetch_result.name = "dpl.tsv"
  /\ downloads[GetResourcePath("dpl.tsv")] = << "failed", "ok" >>
  /\ files[GetResourcePath("dpl.tsv")].written = 2

\* C13: after a fetch_resource call that failed, no file is at the path.
C13_NoFileAfterFailure ==
  (fetch_result # NoCall /\ fetch_result.exc # None) =>
     GetResourcePath(fetch_result.name) \notin DOMAIN files

\* C14: every emit call either fails with ValueError, and then the buffer,
\* the session and the committed tables are as before the call and no flush
\* has run, or merges a non-empty batch of statements of an entity that has
\* an id; so an entity with a null id or without statements always fails.
C14_EmitStep ==
  (emits' = emits + 1) =>
     \/ /\ pc' = "raised"
        /\ exc' = "ValueError"
        /\ UNCHANGED << statements, emitted, db_statements, db_issues,
                        committed_statements, committed_issues, tflushes, handed >>
     \/ /\ pc' = "emit_check"
        /\ batch' # << >>
        /\ \A i \in 1..Len(batch') : batch'[i].entity_id # None

C14_EmitFails == [][C14_EmitStep]_vars

C14_Witness ==
  /\ pc = "raised"
  /\ exc = "ValueError"
  /\ statements # EmptyDict
  /\ emits = 2

\* C15: for a declared table, lookup_value returns the mapped value when a
\* rule matches and the default when none matches, also when the table's
\* get_value signals LookupException, and never raises LookupException;
\* lookup on a value without a rule raises LookupException.
C15_LookupDefault ==
  /\ lookup_call.op = "lookup_value" =>
       LET table == Lookups[lookup_call.lookup]
       IN /\ lookup_result.exc = None
          /\ lookup_result.value =
               IF lookup_call.value \in DOMAIN table.rules
               THEN table.rules[lookup_call.value]
               ELSE lookup_call.default
  /\ lookup_call.op = "lookup" =>
       LET table == Lookups[lookup_call.lookup]
       IN IF lookup_call.value \in DOMAIN table.rules
          THEN lookup_result = Returned(table.rules[lookup_call.value])
          ELSE lookup_result.exc = "LookupException"

C15_Witness ==
  /\ lookup_call.op = "lookup_value"
  /\ lookup_call.lookup = "type"
  /\ lookup_call.value = "USA"
  /\ lookup_call.default = "ZZ"
  /\ lookup_result = Returned("ZZ")

\* export() has just returned or raised.
ExportEnded == Finished /\ run > 0 /\ outcome[run] = "export"

\* C16: export() binds, runs the export routine and closes: however the
\* routine ends, the next step is close, close runs once, and what the caller
\* gets after close is the routine's exception, or a return when there is none.
C16_Closed ==
  ExportEnded => (trace = << "bind", "close" >> /\ logctx = None)

C16_Propagates ==
  /\ (pc = "exporting" /\ pc' # "exporting") => (pc' = "closing" /\ trace' = trace)
  /\ (pc = "closing" /\ outcome[run] = "export" /\ pc' = "idle") =>
       /\ result' = (IF exc = None THEN "returned" ELSE exc)
       /\ trace' = Append(trace, "close")

C16_ExportCloses == [] C16_Closed /\ [][C16_Propagates]_vars

C16_Witness ==
  /\ ExportEnded
  /\ result = "Exception"
  /\ trace = << "bind", "close" >>

\* C17: an export_resource call without a mime type for a file beneath the
\* run directory raises nothing and leaves a resource at the relative path
\* with the type of the file's extension.
C17_InfersMime ==
  (export_call.op = "export_resource" /\ export_call.mime = << >>
     /\ export_call.path[1] = DatasetName) =>
       /\ export_call.exc = None
       /\ \E r \in db_resources :
            /\ r.path = export_call.path[2]
            /\ r.mime_type = ExtensionType(export_call.path)

\* C18: when crawl() has returned or raised, on every path, the statement
\* buffer is empty.
C18_BufferEmptyAtClosed ==
  (Finished /\ run > 0 /\ outcome[run] \in {"completed", "failed", "interrupted"}) =>
     statements = EmptyDict

\* The flushes made so far in the current run.
Flushes == tflushes + Count(trace, "flush")

\* C19 as stated: over all flushes of a run every key is handed to
\* upsert_many at most once.
C19_HandedOnce ==
  \A k \in DOMAIN handed : handed[k] <= 1

\* C19: every flush hands at most one statement per key to upsert_many, so
\* over a run a key is handed over at most once per flush of the run.
C19_FlushStep ==
  \A k \in DOMAIN handed' :
     handed'[k] <= (IF k \in DOMAIN handed THEN handed[k] ELSE 0) + 1

C19_OnceInRun ==
  \A k \in DOMAIN handed : handed[k] <= Flushes

C19_OncePerFlush == [] C19_OnceInRun /\ [][C19_FlushStep]_vars

C19_Witness ==
  /\ pc = "report"
  /\ tflushes >= 1
  /\ \E k \in DOMAIN handed : handed[k] = 2

\* C20: export() never rolls back: also when the export routine raises, the
\* resource written by the last successful export_resource call of the run
\* is committed by close.
C20_ExportCommits ==
  ExportEnded =>
     /\ "rollback" \notin SeqToSet(trace)
     /\ committed_resources = db_resources
     /\ (export_call.op = "export_resource" /\ export_call.exc = None) =>
          \E r \in committed_resources :
             /\ r.dataset = DatasetName
             /\ r.path = export_call.path[2]
             /\ r.mime_type = export_call.mime[1]

C20_Witness ==
  /\ ExportEnded
  /\ run = 1
  /\ result = "Exception"
  /\ export_call.op = "export_resource"
  /\ export_call.exc = None
  /\ committed_resources # {}

====
